---- MODULE Spec2Model ----
(***************************************************************************)
(* Model of two pieces of backend plugin code:                             *)
(*                                                                         *)
(*  - CUDAPlugin::RNN::Details::GRUSequenceParamsCuDnn (its constructor    *)
(*    and the checks it makes) and GRUSequenceDescriptorsCuDnn             *)
(*    (calculateWeightBuffers, initWeightSpace), from                      *)
(*    modules/cuda_plugin/src/ops/gru_sequence_cudnn_components.cpp;       *)
(*                                                                         *)
(*  - ArmPlugin::pass::ConvertArmConvolutionLayout, the matcher callback   *)
(*    that wraps an ArmConvolution in layout transposes (convert_layout).  *)
(*                                                                         *)
(* The two pieces do not share state; SpecGRU and SpecConv run one each.   *)
(***************************************************************************)
EXTENDS Integers, Sequences, FiniteSets, TLC

VARIABLES
    \* ---- GRU: the request, the constructed parameter object, the upload ----
    params,             \* const GRUSequenceParams& params, or NoParams
    obj,                \* the GRUSequenceParamsCuDnn members, or NoObj
    thrown,             \* which throwIEException / Expects ended the operation
    pc,                 \* position of the GRU code
    w_dev_buffers_,     \* DevBuffers of GRUSequenceDescriptorsCuDnn
    r_dev_buffers_,
    b1_dev_buffers_,
    b2_dev_buffers_,
    i,                  \* loop index of initWeightSpace
    w_host_addr,        \* byte offsets into the three host buffers
    r_host_addr,
    b1_host_addr,
    stream,             \* the operations issued on CUDA::DefaultStream, in order
    \* ---- Convolution layout pass ----
    nodes,              \* the graph: node id -> node
    queue,              \* nodes the matcher has still to visit
    runs,               \* the locals and the outcome of every callback run
    cb                  \* outcome of the last callback run

gruVars == <<params, obj, thrown, pc, w_dev_buffers_, r_dev_buffers_,
             b1_dev_buffers_, b2_dev_buffers_, i, w_host_addr, r_host_addr,
             b1_host_addr, stream>>
convVars == <<nodes, queue, runs, cb>>
vars == <<gruVars, convVars>>

----------------------------------------------------------------------------
(* Bounds of the model *)

\* input_size and hidden_size of a request range over 1..MaxSize
MaxSize == 2
\* params.activations_ ranges over the lists of at most MaxActs names
MaxActs == 3
\* batch_size and max_seq_length of a request range over 1..MaxBatch
MaxBatch == 2

----------------------------------------------------------------------------
(* GRUSequenceParamsCuDnn::GRUSequenceParamsCuDnn *)

NoParams == [none |-> TRUE]
NoObj == [none |-> TRUE]

Directions == {"FORWARD", "REVERSE", "BIDIRECTIONAL"}
ActivationNames == {"sigmoid", "tanh", "relu"}
ActivationLists == UNION {[1..n -> ActivationNames] : n \in 0..MaxActs}
\* params.clip_: 0.0f, a finite non-zero value, or infinity
Clips == {"zero", "finite", "inf"}
\* what CUDAPlugin::elementSize returns for the converted element type
\* (half, float)
ElementSizes == {2, 4}

\* GRUSequenceParams::lin_layer_count (the header's constant, used at the
\* loops of initWeightSpace and calculateWeightBuffers)
lin_layer_count == 3

\* number of bias vectors in params.b_host_buffers_: with linear_before_reset
\* the tensor shape is [4 * hidden_size] (comment in initWeightSpace)
BiasRows(lbr) == IF lbr THEN lin_layer_count + 1 ELSE lin_layer_count

Requests ==
    [direction_ : Directions,
     input_size_ : 1..MaxSize,
     hidden_size_ : 1..MaxSize,
     batch_size_ : 1..MaxBatch,
     max_seq_length_ : 1..MaxBatch,
     activations_ : ActivationLists,
     clip_ : Clips,
     linear_before_reset_ : BOOLEAN,
     element_size : ElementSizes]

\* largest value of int32_t
Int32Max == 2147483647
\* static_cast<int32_t>(x) of a size below 2^32: the value is kept up to
\* Int32Max and wraps to a negative number above it
static_cast_int32(x) == IF x <= Int32Max THEN x ELSE (x - Int32Max) - Int32Max - 2

\* the member initialisers of the constructor
Members(p) ==
    [direction_ |-> "CUDNN_UNIDIRECTIONAL",
     element_size_ |-> p.element_size,
     linear_before_reset_ |-> p.linear_before_reset_,
     batch_size_ |-> static_cast_int32(p.batch_size_),
     max_seq_length_ |-> static_cast_int32(p.max_seq_length_),
     input_size_ |-> static_cast_int32(p.input_size_),
     hidden_size_ |-> static_cast_int32(p.hidden_size_),
     \* the host spans hold the whole W, R and B tensors of the operation
     w_host_bytes |-> lin_layer_count * p.hidden_size_ * p.input_size_ * p.element_size,
     r_host_bytes |-> lin_layer_count * p.hidden_size_ * p.hidden_size_ * p.element_size,
     b_host_bytes |-> BiasRows(p.linear_before_reset_) * p.hidden_size_ * p.element_size,
     seq_length_array_ |-> <<>>]

DirectionAcceptsAll(p) == "none"
\* if (params.direction_ == REVERSE) throw; if (== BIDIRECTIONAL) throw
DirectionCheck(p) ==
    IF p.direction_ = "REVERSE" THEN "REVERSE"
    ELSE IF p.direction_ = "BIDIRECTIONAL" THEN "BIDIRECTIONAL"
    ELSE "none"

SizeCheckEither(m) ==
    IF m.input_size_ = 1 \/ m.hidden_size_ = 1 THEN "SIZES" ELSE "none"
\* if (input_size_ == 1 && hidden_size_ == 1) throw
SizeCheck(m) ==
    IF m.input_size_ = 1 /\ m.hidden_size_ = 1 THEN "SIZES" ELSE "none"

supported_activations == <<"sigmoid", "tanh">>

ActivationsCheckAsSet(p) ==
    IF {p.activations_[k] : k \in DOMAIN p.activations_}
         # {supported_activations[k] : k \in DOMAIN supported_activations}
    THEN "ACTIVATIONS" ELSE "none"
\* if (params.activations_ != supported_activations) throw
ActivationsCheck(p) ==
    IF p.activations_ # supported_activations THEN "ACTIVATIONS" ELSE "none"

\* is_clipped = (params.clip_ != 0.0f) && !std::isinf(params.clip_)
ClipCheck(p) ==
    IF p.clip_ # "zero" /\ p.clip_ # "inf" THEN "CLIP" ELSE "none"

\* the checks of the constructor body in the order the code makes them: the
\* first that fails throws
ConstructorThrows(p) ==
    LET m == Members(p) IN
    IF DirectionCheck(p) # "none" THEN DirectionCheck(p)
    ELSE IF SizeCheck(m) # "none" THEN SizeCheck(m)
    ELSE IF ActivationsCheck(p) # "none" THEN ActivationsCheck(p)
    ELSE ClipCheck(p)

\* seq_length_array_.resize(batch_size_, max_seq_length_)
SeqLengthArray(m) == [k \in 1..m.batch_size_ |-> m.max_seq_length_]

Construct ==
    /\ pc = "start"
    /\ \E p \in Requests :
        /\ params' = p
        /\ thrown' = ConstructorThrows(p)
        /\ IF ConstructorThrows(p) = "none"
           THEN /\ obj' = [Members(p) EXCEPT !.seq_length_array_ = SeqLengthArray(Members(p))]
                /\ pc' = "constructed"
           ELSE /\ obj' = NoObj
                /\ pc' = "failed"
    /\ UNCHANGED <<w_dev_buffers_, r_dev_buffers_, b1_dev_buffers_, b2_dev_buffers_,
                   i, w_host_addr, r_host_addr, b1_host_addr, stream>>
    /\ UNCHANGED convVars

----------------------------------------------------------------------------
(* GRUSequenceDescriptorsCuDnn::calculateWeightBuffers *)

\* params_.numDirections()
numDirections(m) == IF m.direction_ = "CUDNN_UNIDIRECTIONAL" THEN 1 ELSE 2

\* The tensor sizes are the vendor library's answer (getTensorSizeInBytes):
\* at least the dense size (the Ensures of calculateWeightBuffers). The model
\* lets the library report one tensor larger than dense, or none.
NoPad == <<"none", 0>>
Pads == {NoPad} \cup ({"w", "r", "b1"} \X (0..(lin_layer_count - 1)))
TensorSize(kind, k, dense, pad, m) ==
    IF pad = <<kind, k>> THEN dense + m.element_size_ ELSE dense

\* one DevBuffers element: the tensor of the library's linear layer `layer`
DevBuffer(layer, size) == [layer |-> layer, size_bytes |-> size]

\* w_dev_buffers_ after the loops: element k is linear layer k
WBuffers(m, pad) ==
    [k \in 1..(numDirections(m) * lin_layer_count) |->
        DevBuffer(k - 1, TensorSize("w", k - 1,
                    m.hidden_size_ * m.input_size_ * m.element_size_, pad, m))]
\* b1_dev_buffers_: the bias returned with linear layer k
B1Buffers(m, pad) ==
    [k \in 1..(numDirections(m) * lin_layer_count) |->
        DevBuffer(k - 1, TensorSize("b1", k - 1,
                    m.hidden_size_ * m.element_size_, pad, m))]
\* r_dev_buffers_: element k is linear layer k + lin_layer_count
RBuffers(m, pad) ==
    [k \in 1..(numDirections(m) * lin_layer_count) |->
        DevBuffer(k - 1 + lin_layer_count, TensorSize("r", k - 1,
                    m.hidden_size_ * m.hidden_size_ * m.element_size_, pad, m))]
\* b2_dev_buffers_: filled only where the library returns a b2 address
B2Buffers(m, has_b2) ==
    IF has_b2
    THEN [k \in 1..(numDirections(m) * lin_layer_count) |->
            DevBuffer(k - 1 + lin_layer_count, m.hidden_size_ * m.element_size_)]
    ELSE <<>>

RECURSIVE TotalBytes(_)
TotalBytes(bufs) ==
    IF bufs = <<>> THEN 0 ELSE Head(bufs).size_bytes + TotalBytes(Tail(bufs))

\* Ensures(w_total_bytes >= w_host_buffers_.size_bytes() &&
\*         r_total_bytes >= r_host_buffers_.size_bytes())
TotalsEnsured(m, w, r) ==
    /\ TotalBytes(w) >= m.w_host_bytes
    /\ TotalBytes(r) >= m.r_host_bytes

----------------------------------------------------------------------------
(* GRUSequenceDescriptorsCuDnn::initWeightSpace *)

dev_buffers_count(m) == lin_layer_count * numDirections(m)
w_host_buffer_size(m) == m.w_host_bytes \div dev_buffers_count(m)
r_host_buffer_size(m) == m.r_host_bytes \div dev_buffers_count(m)
b1_host_layer_size(m) == m.hidden_size_ * m.element_size_

GateSwapNone(n) == n
\* j = (j == 0) ? 1 : ((j == 1) ? 0 : j)
GateSwap(n) == IF n = 0 THEN 1 ELSE IF n = 1 THEN 0 ELSE n

\* stream.upload(DevPtr{bufs[j].data()}, host + off, len)
Upload(dev, bufs, j, host, off, len) ==
    [op |-> "upload", dev |-> dev, idx |-> j, layer |-> bufs[j + 1].layer,
     host |-> host, off |-> off, len |-> len]
\* stream.memset(DevPtr{bufs[j].data()}, 0, bufs[j].size_bytes())
Memset(dev, bufs, j) ==
    [op |-> "memset", dev |-> dev, idx |-> j, layer |-> bufs[j + 1].layer,
     host |-> "none", off |-> 0, len |-> bufs[j + 1].size_bytes]

\* the prologue: calculateWeightBuffers(buffer), the chunk sizes, the host
\* addresses at the start of the three host buffers
InitWeightSpace ==
    /\ pc = "constructed"
    /\ \E pad \in Pads, has_b2 \in BOOLEAN :
        /\ w_dev_buffers_' = WBuffers(obj, pad)
        /\ r_dev_buffers_' = RBuffers(obj, pad)
        /\ b1_dev_buffers_' = B1Buffers(obj, pad)
        /\ b2_dev_buffers_' = B2Buffers(obj, has_b2)
        /\ IF TotalsEnsured(obj, WBuffers(obj, pad), RBuffers(obj, pad))
           THEN pc' = "upload" /\ thrown' = thrown
           ELSE pc' = "failed" /\ thrown' = "ENSURES"
    /\ i' = 0
    /\ w_host_addr' = 0
    /\ r_host_addr' = 0
    /\ b1_host_addr' = 0
    /\ stream' = <<>>
    /\ UNCHANGED <<params, obj>>
    /\ UNCHANGED convVars

\* the b2 part of the loop body
B2Ops(m, n, j) ==
    IF n < Len(b2_dev_buffers_)
    THEN IF m.linear_before_reset_ /\ j = 2
         THEN <<Upload("b2", b2_dev_buffers_, j, "B",
                       b1_host_layer_size(m) * (j + 1), b1_host_layer_size(m))>>
         ELSE <<Memset("b2", b2_dev_buffers_, j)>>
    ELSE <<>>

\* one iteration of the for loop, with the Expects that guard each upload:
\* <<the operations issued, whether an Expects failed>>
LoopBody(m, n) ==
    LET j == GateSwap(n)
        w == <<Upload("w", w_dev_buffers_, j, "W", w_host_addr, w_host_buffer_size(m))>>
        b1 == <<Upload("b1", b1_dev_buffers_, j, "B", b1_host_addr, b1_host_layer_size(m))>>
        r == <<Upload("r", r_dev_buffers_, j, "R", r_host_addr, r_host_buffer_size(m))>>
    IN  IF w_host_buffer_size(m) # w_dev_buffers_[j + 1].size_bytes
            THEN <<(<<>>), TRUE>>
        ELSE IF b1_host_layer_size(m) # b1_dev_buffers_[j + 1].size_bytes
            THEN <<w, TRUE>>
        ELSE IF r_host_buffer_size(m) # r_dev_buffers_[j + 1].size_bytes
            THEN <<w \o b1, TRUE>>
        ELSE <<w \o b1 \o r \o B2Ops(m, n, j), FALSE>>

UploadIteration ==
    /\ pc = "upload"
    /\ i < dev_buffers_count(obj)
    /\ LET body == LoopBody(obj, i) IN
        /\ stream' = stream \o body[1]
        /\ IF body[2]
           THEN /\ pc' = "failed"
                /\ thrown' = "EXPECTS"
                /\ UNCHANGED <<i, w_host_addr, r_host_addr, b1_host_addr>>
           ELSE /\ i' = i + 1
                /\ w_host_addr' = w_host_addr + w_host_buffer_size(obj)
                /\ b1_host_addr' = b1_host_addr + b1_host_layer_size(obj)
                /\ r_host_addr' = r_host_addr + r_host_buffer_size(obj)
                /\ pc' = IF i + 1 < dev_buffers_count(obj) THEN "upload" ELSE "done"
                /\ thrown' = thrown
    /\ UNCHANGED <<params, obj, w_dev_buffers_, r_dev_buffers_, b1_dev_buffers_,
                   b2_dev_buffers_>>
    /\ UNCHANGED convVars

InitGRU ==
    /\ params = NoParams
    /\ obj = NoObj
    /\ thrown = "none"
    /\ pc = "start"
    /\ w_dev_buffers_ = <<>>
    /\ r_dev_buffers_ = <<>>
    /\ b1_dev_buffers_ = <<>>
    /\ b2_dev_buffers_ = <<>>
    /\ i = 0
    /\ w_host_addr = 0
    /\ r_host_addr = 0
    /\ b1_host_addr = 0
    /\ stream = <<>>
    \* the layout pass is not run
    /\ nodes = <<>>
    /\ queue = <<>>
    /\ runs = <<>>
    /\ cb = "none"

NextGRU == Construct \/ InitWeightSpace \/ UploadIteration

SpecGRU == InitGRU /\ [][NextGRU]_vars

----------------------------------------------------------------------------
(* The graph the layout pass rewrites *)

\* a chain of NumConvs convolutions is the graph the pass is run on
NumConvs == 2

nchw_to_nhwc == <<0, 2, 3, 1>>
nhwc_to_nchw == <<0, 3, 1, 2>>
ncdhw_to_ndhwc == <<0, 2, 3, 4, 1>>
ndhwc_to_ncdhw == <<0, 4, 1, 2, 3>>

NoAttrs == [none |-> TRUE]

\* a node of the host engine's graph: its inputs are the ids of the nodes whose
\* output it reads, in input order
Node(type, inputs, value, attrs, name, rank, static, rt) ==
    [type |-> type, inputs |-> inputs, value |-> value, attrs |-> attrs,
     friendly_name |-> name, rank |-> rank, static_rank |-> static, rt_info |-> rt]

\* strides, pads, dilations and auto-pad of a convolution over rank - 2
\* spatial dimensions
ConvAttrs(v, rank) ==
    [strides |-> [d \in 1..(rank - 2) |-> v],
     pads_begin |-> [d \in 1..(rank - 2) |-> v - 1],
     pads_end |-> [d \in 1..(rank - 2) |-> 2 - v],
     dilations |-> [d \in 1..(rank - 2) |-> 3 - v],
     auto_pad |-> IF v = 1 THEN "EXPLICIT" ELSE "SAME_UPPER"]

ConvConfigs == [bias : BOOLEAN, v : {1, 2}]
Ranks == {3, 4, 5}

ConvName(k) == <<"conv", k>>

\* the graph Parameter -> ArmConvolution -> ... -> ArmConvolution -> Result,
\* every convolution with its weights and, by its config, its bias
RECURSIVE Chain(_, _, _, _, _)
Chain(built, prev, cfgs, rank, static) ==
    IF cfgs = <<>>
    THEN Append(built, Node("Result", <<prev>>, <<>>, NoAttrs, <<"result", 0>>, rank, static, <<>>))
    ELSE LET n == Len(built)
             c == Head(cfgs)
             k == NumConvs - Len(cfgs) + 1
             weights == Node("Constant", <<>>, <<>>, NoAttrs, <<"weights", k>>, rank, TRUE, <<>>)
             bias == Node("Constant", <<>>, <<>>, NoAttrs, <<"bias", k>>, 1, TRUE, <<>>)
             ins == IF c.bias THEN <<prev, n + 1, n + 2>> ELSE <<prev, n + 1>>
             conv == Node("ArmConvolution", ins, <<>>, ConvAttrs(c.v, rank),
                          ConvName(k), rank, static, <<"rt", k>>)
             more == IF c.bias THEN <<weights, bias, conv>> ELSE <<weights, conv>>
         IN  Chain(built \o more, n + Len(more), Tail(cfgs), rank, static)

InitialGraph(cfgs, rank, static) ==
    Chain(<<Node("Parameter", <<>>, <<>>, NoAttrs, <<"data", 0>>, rank, static, <<>>)>>,
          1, cfgs, rank, static)

----------------------------------------------------------------------------
(* convert_layout: transpose_on_input, transpose_on_output, the callback *)

SupportedRank(rank) == rank = 4 \/ rank = 5

\* the order constant transpose_on_input creates for the rank
InputOrder(rank) == IF rank = 4 THEN nchw_to_nhwc ELSE ncdhw_to_ndhwc
\* the order constant transpose_on_output creates for the rank
OutputOrder(rank) == IF rank = 4 THEN nhwc_to_nchw ELSE ndhwc_to_ncdhw

\* opset::Constant::create(element::i32, Shape{order.size()}, order)
OrderConstant(order) ==
    Node("Constant", <<>>, order, NoAttrs, <<"", 0>>, 1, TRUE, <<>>)

\* std::make_shared<opset::Transpose>(input, constant): the two nodes
\* transpose_on_input / transpose_on_output add, the constant at id `at`
TransposeNodes(g, input, order, at) ==
    <<OrderConstant(order),
      Node("Transpose", <<input, at>>, <<>>, NoAttrs, <<"", 0>>,
           g[input].rank, g[input].static_rank, <<>>)>>

NewConvInputsNoBias(conv, activations_transpose, weights_transpose) ==
    <<activations_transpose, weights_transpose>>
\* the inputs of new_conv: conv->input_value(2) is passed on when
\* conv->get_input_size() > 2
NewConvInputs(conv, activations_transpose, weights_transpose) ==
    IF Len(conv.inputs) > 2
    THEN <<activations_transpose, weights_transpose, conv.inputs[3]>>
    ELSE <<activations_transpose, weights_transpose>>

\* replace_node(target, replacement): every input that read target reads
\* replacement
ReplaceNode(g, target, replacement) ==
    [n \in DOMAIN g |->
        [g[n] EXCEPT !.inputs =
            [k \in DOMAIN g[n].inputs |->
                IF g[n].inputs[k] = target THEN replacement ELSE g[n].inputs[k]]]]

\* the ids the callback's new nodes get in a graph of n nodes
Locals(n, c) ==
    [conv |-> c,
     activations_transpose |-> n + 2,
     weights_transpose |-> n + 4,
     new_conv |-> n + 5,
     transpose |-> n + 7]

\* the graph after the callback ran to its end on node c
Rewritten(g, c) ==
    LET conv == g[c]
        rank == conv.rank
        l == Locals(Len(g), c)
        g1 == g \o TransposeNodes(g, conv.inputs[1], InputOrder(rank), Len(g) + 1)
        g2 == g1 \o TransposeNodes(g1, conv.inputs[2], InputOrder(rank), Len(g1) + 1)
        \* new_conv, with set_friendly_name(conv->get_friendly_name()) and
        \* copy_runtime_info(conv, {new_conv, transpose})
        g3 == Append(g2, Node("ArmConvolution",
                        NewConvInputs(conv, l.activations_transpose, l.weights_transpose),
                        <<>>, conv.attrs, conv.friendly_name, rank, conv.static_rank,
                        conv.rt_info))
        g4 == g3 \o TransposeNodes(g3, l.new_conv, OutputOrder(rank), Len(g3) + 1)
        g5 == [g4 EXCEPT ![l.transpose].rt_info = conv.rt_info]
    IN  ReplaceNode(g5, c, l.transpose)

\* wrap_type<opset::ArmConvolution>(has_static_rank())
Matches(node) == node.type = "ArmConvolution" /\ node.static_rank

\* what the callback does on the match root c: "false" (not a convolution),
\* "throw" (transpose_on_input: unsupported rank) or "true"
CallbackResult(g, c) ==
    IF g[c].type # "ArmConvolution" THEN "false"
    ELSE IF ~SupportedRank(g[c].rank) THEN "throw"
    ELSE "true"

\* the matcher reaches a node the pattern matches, and the callback runs
MatchAndCallback ==
    /\ queue # <<>>
    /\ Matches(nodes[Head(queue)])
    /\ LET c == Head(queue)
           res == CallbackResult(nodes, c)
       IN  /\ cb' = res
           /\ runs' = Append(runs,
                  [orig |-> nodes[c],
                   consumers |-> {n \in DOMAIN nodes :
                                     \E k \in DOMAIN nodes[n].inputs :
                                         nodes[n].inputs[k] = c},
                   returned |-> res]
                  @@ Locals(Len(nodes), c))
           /\ IF res = "true"
              THEN /\ nodes' = Rewritten(nodes, c)
                   /\ queue' = Tail(queue)
              ELSE /\ UNCHANGED nodes
                   \* the exception leaves the pass
                   /\ queue' = IF res = "throw" THEN <<>> ELSE Tail(queue)
    /\ UNCHANGED gruVars

\* the matcher reaches a node the pattern does not match
NoMatch ==
    /\ queue # <<>>
    /\ ~Matches(nodes[Head(queue)])
    /\ queue' = Tail(queue)
    /\ cb' = "none"
    /\ UNCHANGED <<nodes, runs>>
    /\ UNCHANGED gruVars

InitConv ==
    /\ \E cfgs \in [1..NumConvs -> ConvConfigs], rank \in Ranks, static \in BOOLEAN :
        /\ nodes = InitialGraph(cfgs, rank, static)
        /\ queue = [n \in 1..Len(InitialGraph(cfgs, rank, static)) |-> n]
    /\ runs = <<>>
    /\ cb = "none"
    \* the GRU code is not run
    /\ params = NoParams
    /\ obj = NoObj
    /\ thrown = "none"
    /\ pc = "idle"
    /\ w_dev_buffers_ = <<>>
    /\ r_dev_buffers_ = <<>>
    /\ b1_dev_buffers_ = <<>>
    /\ b2_dev_buffers_ = <<>>
    /\ i = 0
    /\ w_host_addr = 0
    /\ r_host_addr = 0
    /\ b1_host_addr = 0
    /\ stream = <<>>

NextConv == MatchAndCallback \/ NoMatch

SpecConv == InitConv /\ [][NextConv]_vars

----------------------------------------------------------------------------
(* Claims about initWeightSpace *)

\* the gate each linear layer index stands for, in the two libraries
OpenVinoGates == <<"Z", "R", "H">>
CuDnnGates == <<"R", "Z", "H">>

\* the operations of the stream that write buffer idx of a device buffer list
WritesTo(dev, idx) ==
    {k \in DOMAIN stream : stream[k].dev = dev /\ stream[k].idx = idx}
\* the operations of the stream that read a host buffer at a byte offset
ReadsAt(host, off) ==
    {k \in DOMAIN stream : stream[k].host = host /\ stream[k].off = off}

\* host chunk n of a host buffer went, whole and once, to the device buffer
\* of the same gate, and nothing else was written there
ChunkPlaced(dev, host, n, chunk) ==
    /\ Cardinality(ReadsAt(host, n * chunk)) = 1
    /\ \A k \in ReadsAt(host, n * chunk) :
        /\ stream[k].op = "upload"
        /\ stream[k].dev = dev
        /\ stream[k].len = chunk
        /\ CuDnnGates[stream[k].idx + 1] = OpenVinoGates[n + 1]
        /\ WritesTo(dev, stream[k].idx) = {k}

\* C1: when initWeightSpace has run to its end for a unidirectional GRU, host
\* gate chunk n (order Z,R,H, at byte offset n * chunk of W, R and B) was
\* uploaded to the device buffer whose index holds the same gate in the order
\* R,Z,H (0 and 1 swapped, 2 kept); each W, R and b1 device buffer was written
\* exactly once and each host chunk read exactly once.
C1_GateChunksSwapped ==
    pc = "done" =>
        /\ obj.direction_ = "CUDNN_UNIDIRECTIONAL"
        /\ \A n \in 0..2 :
            /\ ChunkPlaced("w", "W", n,
                   params.hidden_size_ * params.input_size_ * params.element_size)
            /\ ChunkPlaced("r", "R", n,
                   params.hidden_size_ * params.hidden_size_ * params.element_size)
            /\ ChunkPlaced("b1", "B", n, params.hidden_size_ * params.element_size)
        /\ \A dev \in {"w", "r", "b1"} :
            /\ \A idx \in 0..2 : Cardinality(WritesTo(dev, idx)) = 1
            /\ \A k \in DOMAIN stream : stream[k].dev = dev => stream[k].idx \in 0..2

\* initWeightSpace ran to its end, with the second bias buffers present
C1_Witness ==
    /\ pc = "done"
    /\ i = 3
    /\ Len(stream) = 12
    /\ stream[1].dev = "w" /\ stream[1].idx = 1 /\ stream[1].off = 0

----------------------------------------------------------------------------
(* Claims about the GRUSequenceParamsCuDnn constructor *)

Constructed == pc \notin {"start", "idle"} /\ obj # NoObj
Rejected == pc = "failed" /\ obj = NoObj /\ thrown # "none"
Requested == pc \notin {"start", "idle"}

\* C3: a request whose direction is REVERSE or BIDIRECTIONAL is rejected with
\* an error; every constructed object comes from a FORWARD request and has
\* direction_ CUDNN_UNIDIRECTIONAL.
C3_OnlyForwardConstructed ==
    Requested =>
        /\ params.direction_ \in {"REVERSE", "BIDIRECTIONAL"} => Rejected
        /\ Constructed =>
            /\ params.direction_ = "FORWARD"
            /\ obj.direction_ = "CUDNN_UNIDIRECTIONAL"

\* a BIDIRECTIONAL request that is otherwise acceptable was rejected
C3_Witness ==
    /\ Rejected
    /\ params.direction_ = "BIDIRECTIONAL"
    /\ params.activations_ = <<"sigmoid", "tanh">>
    /\ params.hidden_size_ = 2
    /\ params.clip_ = "zero"

\* C4: a request with input_size 1 and hidden_size 1 is rejected, and the size
\* check rejects no request in which only one of the two sizes is 1.
C4_BothSizesOne ==
    Requested =>
        /\ (params.input_size_ = 1 /\ params.hidden_size_ = 1) => Rejected
        /\ thrown = "SIZES" => (params.input_size_ = 1 /\ params.hidden_size_ = 1)
        /\ (/\ (params.input_size_ = 1) # (params.hidden_size_ = 1)
            /\ params.direction_ = "FORWARD"
            /\ params.activations_ = <<"sigmoid", "tanh">>
            /\ params.clip_ \in {"zero", "inf"}) => Constructed

\* a FORWARD request with both sizes 1 was rejected by the size check
C4_Witness ==
    /\ Rejected
    /\ thrown = "SIZES"
    /\ params.input_size_ = 1
    /\ params.hidden_size_ = 1
    /\ params.direction_ = "FORWARD"

\* C5: a request is rejected unless its activations are exactly the list
\* "sigmoid", "tanh": another order, another length or other names are
\* rejected, whatever the rest of the request is.
C5_ActivationsExact ==
    Requested =>
        /\ params.activations_ # <<"sigmoid", "tanh">> => Rejected
        /\ thrown = "ACTIVATIONS" => params.activations_ # <<"sigmoid", "tanh">>

\* the two supported names in the other order were rejected by the
\* activations check
C5_Witness ==
    /\ Rejected
    /\ thrown = "ACTIVATIONS"
    /\ params.activations_ = <<"tanh", "sigmoid">>

----------------------------------------------------------------------------
(* Claims about the ConvertArmConvolutionLayout callback *)

Transposes == {n \in DOMAIN nodes : nodes[n].type = "Transpose"}

\* node t is a Transpose of node `input` by the permutation `order`
IsTransposeOf(t, input, order) ==
    /\ t \in DOMAIN nodes
    /\ nodes[t].type = "Transpose"
    /\ Len(nodes[t].inputs) = 2
    /\ nodes[t].inputs[1] = input
    /\ nodes[nodes[t].inputs[2]].type = "Constant"
    /\ nodes[nodes[t].inputs[2]].value = order

\* the permutations the claim's layouts stand for:
\* channels-first to channels-last and back
ToChannelsLast(rank) == [d \in 1..rank |-> IF d = 1 THEN 0 ELSE IF d = rank THEN 1 ELSE d]
ToChannelsFirst(rank) == [d \in 1..rank |-> IF d = 1 THEN 0 ELSE IF d = 2 THEN rank - 1 ELSE d - 2]

RewriteAsClaimed(rw) ==
    LET new_conv == nodes[rw.new_conv]
        rank == rw.orig.rank
    IN  /\ rw.returned = "true"
        \* the node is replaced by Transpose_out(new_conv)
        /\ IsTransposeOf(rw.transpose, rw.new_conv, ToChannelsFirst(rank))
        /\ \A n \in DOMAIN nodes : \A k \in DOMAIN nodes[n].inputs :
               nodes[n].inputs[k] # rw.conv
        /\ \A n \in rw.consumers : \E k \in DOMAIN nodes[n].inputs :
               nodes[n].inputs[k] = rw.transpose
        \* new_conv reads the two transposed inputs and the bias as it was
        /\ new_conv.type = "ArmConvolution"
        /\ IsTransposeOf(new_conv.inputs[1], rw.orig.inputs[1], ToChannelsLast(rank))
        /\ IsTransposeOf(new_conv.inputs[2], rw.orig.inputs[2], ToChannelsLast(rank))
        /\ new_conv.inputs[1] # new_conv.inputs[2]
        /\ Len(new_conv.inputs) = Len(rw.orig.inputs)
        /\ Len(rw.orig.inputs) > 2 => new_conv.inputs[3] = rw.orig.inputs[3]
        \* and keeps the attributes and the name
        /\ new_conv.attrs = rw.orig.attrs
        /\ new_conv.friendly_name = rw.orig.friendly_name

\* the callback runs on a matched convolution of rank 4 or 5
MatchedRuns == {r \in DOMAIN runs : runs[r].orig.rank \in {4, 5}}

\* C2: every ArmConvolution of rank 4 or 5 the callback matched is replaced by
\* Transpose_out(new_conv); new_conv reads Transpose_in of the original inputs
\* 0 and 1 and, when the original had more than two inputs, the original
\* input 2 untransposed; it keeps strides, pads, dilations, auto-pad and
\* friendly name; the callback returns true; three Transpose nodes are
\* inserted per matched convolution.
C2_ConvolutionWrapped ==
    /\ \A r \in MatchedRuns : RewriteAsClaimed(runs[r])
    /\ Cardinality(Transposes) = 3 * Cardinality(MatchedRuns)
    /\ (runs # <<>> /\ Len(runs) \in MatchedRuns /\ cb # "none") => cb = "true"

\* the callback has just returned true on a convolution with a bias whose
\* input was the output of an earlier rewrite
C2_Witness ==
    /\ cb = "true"
    /\ Len(runs) = 2
    /\ Len(runs[2].orig.inputs) = 3
    /\ runs[2].orig.inputs[1] = runs[1].transpose
    /\ runs[2].orig.rank = 5

====
